---- MODULE Spec2Model ----
(***************************************************************************)
(* A model of psmc_check (src/psmc_check/psmc_check.py): the ACIS PSMC     *)
(* 1PDEAAT load-review check.  Four specifications share the variables:    *)
(*   Spec              one process run of main(): the driver's pipeline    *)
(*                     calling set_initial_state and calc_model_wrapper;   *)
(*   SpecInitialState  set_initial_state applied to bounded telemetry;     *)
(*   SpecWrapper       calc_model_wrapper applied to bounded arguments;    *)
(*   SpecCalcModel     calc_model applied to bounded arguments.            *)
(* The driver itself (ACISThermalCheck.driver) is not part of this file's  *)
(* source; its steps follow the orchestrator of the design document.       *)
(* Temperatures are exact rationals [n, d] in degrees C; d = 0 is NaN.     *)
(***************************************************************************)
EXTENDS Integers, Sequences, FiniteSets, TLC

VARIABLES
    pc,          \* position of the run (or of the function under test)
    tlm,         \* telemetry table: "date" and msid columns
    db,          \* cmd_states table: a set of state rows
    fileExists,  \* dahtbon_history.rdb is present in oflsdir
    traceback,   \* args.traceback
    driverCalls, \* number of times psmc_check.driver was invoked
    state0,      \* <<>> or <<s>>: the state returned by set_initial_state
    error,       \* <<>> or <<e>>: the exception raised inside the run
    uncaught,    \* <<>> or <<e>>: the exception that left main
    steps,       \* the driver steps started, in order
    calls,       \* the calc_model invocations, in order: their arguments
    fileReads,   \* number of ascii.read calls on the heater-history file
    fwdModel,    \* <<>> or <<m>>: model returned by the forward run
    valModel,    \* <<>> or <<m>>: model returned by the validation run
    pred,        \* predicted 1PDEAAT series of the forward run
    viols,       \* <<>> or <<S>>: indices of pred flagged by the limit check
    report,      \* <<>> or <<r>>: what the Terminal step emitted
    printed,     \* lines printed by main
    exitStatus,  \* <<>> or <<n>>: process exit status
    cmArgs,      \* SpecCalcModel: the arguments of the calc_model call
    cmFetch      \* SpecCalcModel: 1PDEAAT telemetry the engine would fetch

vars == <<pc, tlm, db, fileExists, traceback, driverCalls, state0, error,
          uncaught, steps, calls, fileReads, fwdModel, valModel, pred, viols, report,
          printed, exitStatus, cmArgs, cmFetch>>

----------------------------------------------------------------------------
(* Bounds of the model *)

\* largest number of telemetry samples in a table
MaxTlm == 7
\* number of samples of the predicted series
NPred == 2
\* number of points of the model's time grid
NTimes == 2

----------------------------------------------------------------------------
(* Numbers: numpy float64 values as exact rationals *)

RECURSIVE Gcd(_, _)
Gcd(a, b) == IF b = 0 THEN a ELSE Gcd(b, a % b)

Abs(a) == IF a < 0 THEN -a ELSE a

\* the rational n/d in lowest terms (d > 0)
Rat(n, d) == LET g == Gcd(Abs(n), d) IN [n |-> n \div g, d |-> d \div g]

R(k) == [n |-> k, d |-> 1]

NaN == [n |-> 0, d |-> 0]

IsNaN(x) == x.d = 0

\* x - k for an integer k; NaN - k is NaN
RSub(x, k) == IF IsNaN(x) THEN NaN ELSE Rat(x.n - k * x.d, x.d)

\* x >= y; every comparison with NaN is False
RGe(x, y) == ~IsNaN(x) /\ ~IsNaN(y) /\ x.n * y.d >= y.n * x.d

RECURSIVE SeqSum(_)
SeqSum(s) == IF s = <<>> THEN 0 ELSE Head(s) + SeqSum(Tail(s))

\* np.mean of an array of numbers: NaN (with a warning) for an empty array
NpMean(s) == IF Len(s) = 0 THEN NaN ELSE Rat(SeqSum(s), Len(s))

\* a[ok]: boolean-mask indexing
RECURSIVE Mask(_, _)
Mask(a, ok) ==
    IF a = <<>> THEN <<>>
    ELSE (IF Head(ok) THEN <<Head(a)>> ELSE <<>>) \o Mask(Tail(a), Tail(ok))

----------------------------------------------------------------------------
(* Optional values and model-driver data *)

None == [tag |-> "None"]
Scalar(x) == [tag |-> "scalar", val |-> x]
Array(s) == [tag |-> "array", vals |-> s]
Column(s) == [tag |-> "column", col |-> s]
Flag(b) == [tag |-> "bool", flag |-> b]

IsNone(x) == x.tag = "None"

----------------------------------------------------------------------------
(* Module constants and the check object *)

\* MSID = dict(psmc='1PDEAAT'); the check object is built for "1pdeaat"
msid == "1pdeaat"
\* key under which the check object stores the seed temperature
t_msid == "T_psmc"

YELLOW == R(55)

\* MARGIN = dict(psmc=0.0): no early-warning buffer
MARGIN_none == R(0)

MARGIN == Rat(5, 2)

\* half-width of the seeding window, seconds
SeedWindow == 700

\* the companion sensor (1PIN1AT) is seeded this far below the tracked one
PinOffset == 10

\* x - y
RMinus(x, y) ==
    IF IsNaN(x) \/ IsNaN(y) THEN NaN
    ELSE Rat(x.n * y.d - y.n * x.d, x.d * y.d)

Ok(v) == [ok |-> TRUE, val |-> v]
Raise(e) == [ok |-> FALSE, err |-> e]

----------------------------------------------------------------------------
(* PSMCModelCheck.set_initial_state *)

\* cmd_states.get_state0(date, db, datepar='datestart', date_margin=-100):
\* the last state whose datestart is before date; raises when there is none
get_state0(date, d) ==
    LET before == {r \in d : r.tstart < date} IN
    IF before = {} THEN Raise("StateLookupError")
    ELSE Ok(CHOOSE r \in before : \A q \in before : q.tstart <= r.tstart)

\* one element of the mask ok: date within 700 s of tstart, both ends included
InWindow_upper_exclusive(date, tstart) ==
    date >= tstart - SeedWindow /\ date < tstart + SeedWindow

InWindow(date, tstart) ==
    date >= tstart - SeedWindow /\ date <= tstart + SeedWindow

\* state0.update({t_msid: np.mean(...)}) with no guard against an empty mask
set_initial_state(tl, d) ==
    LET n == Len(tl["date"]) IN
    IF n < 5 THEN Raise("IndexError")        \* tlm['date'][-5]
    ELSE
      LET got == get_state0(tl["date"][n - 4], d) IN
      IF ~got.ok THEN got
      ELSE
        LET s0 == got.val
            ok == [i \in 1..n |-> InWindow(tl["date"][i], s0.tstart)]
        IN Ok((t_msid :> NpMean(Mask(tl[msid], ok))) @@ s0)

----------------------------------------------------------------------------
(* calc_model *)

Components == {"sim_z", "1pdeaat", "pin1at", "roll", "eclipse", "ccd_count",
               "fep_count", "vid_board", "clocking", "pitch", "dh_heater"}

Unset == [tag |-> "unset"]
Times2(a, b) == [tag |-> "times", t0 |-> a, t1 |-> b]
Rolls(s) == [tag |-> "rolls", of |-> s]

\* states[name]: one column of the timeline
ColumnOf(states, name) == [i \in 1..Len(states) |-> states[i][name]]

\* acis_thermal_check.utils.calc_off_nom_rolls: one scalar per interval,
\* derived from the interval's attitude
calc_off_nom_rolls(states) == Rolls(ColumnOf(states, "q_att"))

\* xija.XijaModel('psmc', start, stop, model_spec): no component has data yet
XijaModel(start, stop, model_spec) ==
    [start |-> start, stop |-> stop, model_spec |-> model_spec,
     comp |-> [c \in Components |-> [data |-> Unset, times |-> Unset]],
     log |-> <<>>]

\* model.comp[name].set_data(data, times)
set_data(m, name, data, times) ==
    [m EXCEPT !.comp[name] = [data |-> data, times |-> times],
              !.log = Append(@, [op |-> "set_data", comp |-> name])]

make(m) == [m EXCEPT !.log = Append(@, [op |-> "make", comp |-> ""])]
calc(m) == [m EXCEPT !.log = Append(@, [op |-> "calc", comp |-> ""])]

\* model.comp[name].dvals: the component's data on the model's time grid;
\* a scalar is broadcast, absent data is fetched from telemetry by the engine
dvals(m, name, fetch) ==
    IF IsNone(m.comp[name].data) THEN fetch
    ELSE [i \in 1..NTimes |-> m.comp[name].data.val]

\* array - 10.0, element by element
ArrayMinus(a, k) == [i \in 1..Len(a) |-> RSub(a[i], k)]

\* the loop over ('ccd_count', 'fep_count', 'vid_board', 'clocking', 'pitch')
RECURSIVE SetStateColumns(_, _, _, _)
SetStateColumns(m, names, states, times) ==
    IF names = <<>> THEN m
    ELSE SetStateColumns(
             set_data(m, Head(names), Column(ColumnOf(states, Head(names))), times),
             Tail(names), states, times)

\* lines 59-60 with the test dropped: the offset rule applied always
pin1at_seed_always_derived(a, m, fetch) ==
    Array(ArrayMinus(dvals(m, "1pdeaat", fetch), PinOffset))

\* lines 59-60: the companion seed, derived only when none is supplied
pin1at_seed(a, m, fetch) ==
    IF IsNone(a.T_pin1at)
    THEN Array(ArrayMinus(dvals(m, "1pdeaat", fetch), PinOffset))
    ELSE a.T_pin1at

\* line 54 restored beside line 63: eclipse set a second time
set_eclipse_twice(m) ==
    set_data(set_data(m, "eclipse", Flag(FALSE), None), "eclipse", Flag(FALSE), None)

\* line 63: model.comp['eclipse'].set_data(False)
set_eclipse(m) == set_data(m, "eclipse", Flag(FALSE), None)

calc_model(a, fetch) ==
    LET model == XijaModel(a.start, a.stop, a.model_spec)
        times == Times2(ColumnOf(a.states, "tstart"), ColumnOf(a.states, "tstop"))
        m1 == set_data(model, "sim_z", Column(ColumnOf(a.states, "simpos")), times)
        m2 == set_data(m1, "1pdeaat", a.T_psmc, a.T_psmc_times)
        T_pin1at == pin1at_seed(a, m2, fetch)
        m3 == set_data(m2, "pin1at", T_pin1at, a.T_pin1at_times)
        m4 == set_data(m3, "roll", calc_off_nom_rolls(a.states), times)
        m5 == set_eclipse(m4)
        m6 == SetStateColumns(m5, <<"ccd_count", "fep_count", "vid_board",
                                    "clocking", "pitch">>, a.states, times)
        m7 == set_data(m6, "dh_heater", a.dh_heater, a.dh_heater_times)
    IN calc(make(m7))

----------------------------------------------------------------------------
(* PSMCModelCheck.calc_model_wrapper *)

\* astropy.io.ascii.read(htrbfn, format='rdb'): raises when the file is absent;
\* the failure carries the name the design document gives it
ascii_read(oflsdir) ==
    IF oflsdir.exists THEN Ok(oflsdir.rows)
    ELSE Raise("MissingHeaterHistoryError")

\* Chandra.Time.date2secs on a column of dates
date2secs(dates) == [i \in 1..Len(dates) |-> dates[i].day * 86400 + dates[i].sod]

Bools(s) == [tag |-> "bools", col |-> s]
Secs(s) == [tag |-> "secs", col |-> s]

\* htrb['dahtbon'].astype(bool)
astype_bool(col) == [i \in 1..Len(col) |-> col[i] # 0]

\* line 89 without the offset
start_pin_no_offset(s) == s[t_msid]

\* line 89: the infamous pin1at hack
start_pin(s) == RSub(s[t_msid], PinOffset)

\* the heater history read in both branches
heater_history_always_read(oflsdir, s0) ==
    LET htrb == ascii_read(oflsdir) IN
    [reads |-> 1,
     res |-> IF htrb.ok
             THEN Ok([dh_heater_times |-> Secs(date2secs(ColumnOf(htrb.val, "time"))),
                      dh_heater |-> Bools(astype_bool(ColumnOf(htrb.val, "dahtbon")))])
             ELSE htrb]

\* a missing heater history tolerated: the heater driver left absent
heater_history_missing_tolerated(oflsdir, s0) ==
    IF s0 = <<>>
    THEN [reads |-> 0, res |-> Ok([dh_heater_times |-> None, dh_heater |-> None])]
    ELSE
      LET htrb == ascii_read(oflsdir) IN
      [reads |-> 1,
       res |-> IF htrb.ok
               THEN Ok([dh_heater_times |-> Secs(date2secs(ColumnOf(htrb.val, "time"))),
                        dh_heater |-> Bools(astype_bool(ColumnOf(htrb.val, "dahtbon")))])
               ELSE Ok([dh_heater_times |-> None, dh_heater |-> None])]

\* lines 85-86 and 90-94: the heater driver of the run; reads counts the
\* ascii.read calls made
heater_history(oflsdir, s0) ==
    IF s0 = <<>>
    THEN [reads |-> 0, res |-> Ok([dh_heater_times |-> None, dh_heater |-> None])]
    ELSE
      LET htrb == ascii_read(oflsdir) IN
      [reads |-> 1,
       res |-> IF htrb.ok
               THEN Ok([dh_heater_times |-> Secs(date2secs(ColumnOf(htrb.val, "time"))),
                        dh_heater |-> Bools(astype_bool(ColumnOf(htrb.val, "dahtbon")))])
               ELSE htrb]

\* The result names what the call did: the file reads, the exception it
\* raised (if any), the arguments handed to calc_model and the model returned.
calc_model_wrapper(oflsdir, model_spec, states, tstart, tstop, s0, fetch) ==
    LET start_msid == IF s0 = <<>> THEN None ELSE Scalar(s0[1][t_msid])
        start_pin_ == IF s0 = <<>> THEN None ELSE Scalar(start_pin(s0[1]))
        h == heater_history(oflsdir, s0)
    IN
    IF ~h.res.ok
    THEN [reads |-> h.reads, raised |-> <<h.res.err>>, call |-> <<>>, model |-> <<>>]
    ELSE
      LET a == [model_spec |-> model_spec, states |-> states,
                start |-> tstart, stop |-> tstop,
                T_psmc |-> start_msid, T_psmc_times |-> None,
                T_pin1at |-> start_pin_, T_pin1at_times |-> None,
                dh_heater |-> h.res.val.dh_heater,
                dh_heater_times |-> h.res.val.dh_heater_times]
      IN [reads |-> h.reads, raised |-> <<>>, call |-> <<a>>,
          model |-> <<calc_model(a, fetch)>>]

----------------------------------------------------------------------------
(* Inputs *)

\* telemetry timestamps: around the window edges of the states below
DateGrid == {299, 300, 1700, 1701, 2400, 3000, 3600, 4200}
TlmVals == {40, 45}

RECURSIVE Sorted(_)
Sorted(S) ==
    IF S = {} THEN <<>>
    ELSE LET lo == CHOOSE x \in S : \A y \in S : x <= y
         IN <<lo>> \o Sorted(S \ {lo})

Table(dates, vals) == ("date" :> dates) @@ (msid :> vals)

\* telemetry tables: strictly increasing dates, at most MaxTlm samples
TlmInputs ==
    UNION {{Table(Sorted(S), v) : v \in [1..Cardinality(S) -> TlmVals]} :
           S \in {T \in SUBSET DateGrid : Cardinality(T) <= MaxTlm}}

\* the tables of the pipeline runs: too short, window empty, window populated
PipelineTlm ==
    {Table(Sorted(S), [i \in 1..Cardinality(S) |-> IF i % 2 = 1 THEN 40 ELSE 45]) :
     S \in {{1701, 2400, 3000},
            {1701, 2400, 3000, 3600, 4200},
            {1700, 1701, 2400, 3000, 3600},
            {300, 1700, 1701, 2400, 3000, 3600}}}

StateRow(t0, t1, simpos, pitch) ==
    [tstart |-> t0, tstop |-> t1, simpos |-> simpos, pitch |-> pitch]

DbInputs == {{},
             {StateRow(200, 1000, -50000, 150)},
             {StateRow(1000, 5000, 75000, 90)},
             {StateRow(200, 1000, -50000, 150), StateRow(1000, 5000, 75000, 90)}}

Interval(t0, t1, simpos, pitch, ccd) ==
    [tstart |-> t0, tstop |-> t1, simpos |-> simpos, pitch |-> pitch,
     ccd_count |-> ccd, fep_count |-> ccd, vid_board |-> 1, clocking |-> 1,
     q_att |-> pitch]

\* the planned timeline: two contiguous intervals
Timeline == <<Interval(5000, 6000, -50000, 150, 6), Interval(6000, 8000, 75000, 90, 4)>>
TimelineInputs == {Timeline, <<Interval(5000, 8000, 75000, 90, 0)>>}

HeaterRows == <<[time |-> [day |-> 0, sod |-> 5000], dahtbon |-> 1],
                [time |-> [day |-> 0, sod |-> 7000], dahtbon |-> 0]>>

\* 1PDEAAT telemetry on the model grid, as the engine fetches it
FetchInputs == [1..NTimes -> {R(40), R(45)}]

\* the engine's predicted series
PredVals == {R(45), Rat(262, 5), Rat(105, 2), R(53)}
PredInputs == [1..NPred -> PredVals]

CalcModelArgs ==
    {[model_spec |-> "psmc_model_spec.json", states |-> st,
      start |-> 5000, stop |-> 8000,
      T_psmc |-> tp, T_psmc_times |-> None,
      T_pin1at |-> tq, T_pin1at_times |-> None,
      dh_heater |-> dh[1], dh_heater_times |-> dh[2]] :
     st \in TimelineInputs,
     tp \in {None, Scalar(R(40)), Scalar(R(45))},
     tq \in {None, Scalar(R(20)), Scalar(R(30)), Scalar(R(35))},
     dh \in {<<None, None>>, <<Bools(<<TRUE, FALSE>>), Secs(<<5000, 7000>>)>>}}

----------------------------------------------------------------------------
(* The run of main() *)

Blank ==
    /\ driverCalls = 0
    /\ error = <<>>
    /\ uncaught = <<>>
    /\ steps = <<>>
    /\ calls = <<>>
    /\ fileReads = 0
    /\ fwdModel = <<>>
    /\ valModel = <<>>
    /\ pred = <<>>
    /\ viols = <<>>
    /\ report = <<>>
    /\ printed = <<>>
    /\ exitStatus = <<>>

Init ==
    /\ pc = "main"
    /\ tlm \in PipelineTlm
    /\ db \in DbInputs
    /\ fileExists \in BOOLEAN
    /\ traceback \in BOOLEAN
    /\ cmArgs = None
    /\ cmFetch = <<>>
    /\ state0 = <<>>
    /\ Blank

oflsdir == [exists |-> fileExists, rows |-> HeaterRows]

\* main, lines 110-114: get_options, then psmc_check.driver(args)
MainCallDriver ==
    /\ pc = "main"
    /\ driverCalls' = driverCalls + 1
    /\ pc' = "Init"
    /\ UNCHANGED <<tlm, db, fileExists, traceback, state0, error, uncaught, steps,
                   calls, fileReads, fwdModel, valModel, pred, viols, report,
                   printed, exitStatus, cmArgs, cmFetch>>

\* driver step 1: telemetry and timeline are loaded
DriverInit ==
    /\ pc = "Init"
    /\ steps' = Append(steps, "Init")
    /\ pc' = "ResolveInitialState"
    /\ UNCHANGED <<tlm, db, fileExists, traceback, driverCalls, state0, error,
                   uncaught, calls, fileReads, fwdModel, valModel, pred, viols,
                   report, printed, exitStatus, cmArgs, cmFetch>>

\* driver step 2: set_initial_state(tlm, db)
ResolveInitialState ==
    /\ pc = "ResolveInitialState"
    /\ steps' = Append(steps, "ResolveInitialState")
    /\ LET r == set_initial_state(tlm, db) IN
       IF r.ok
       THEN state0' = <<r.val>> /\ error' = error /\ pc' = "RunForward"
       ELSE state0' = state0 /\ error' = <<r.err>> /\ pc' = "except"
    /\ UNCHANGED <<tlm, db, fileExists, traceback, driverCalls, uncaught, calls,
                   fileReads, fwdModel, valModel, pred, viols, report, printed,
                   exitStatus, cmArgs, cmFetch>>

\* driver step 3: calc_model_wrapper with the resolved state0; the engine's
\* predicted series comes with the model
RunForward ==
    /\ pc = "RunForward"
    /\ steps' = Append(steps, "RunForward")
    /\ \E fetch \in FetchInputs, p \in PredInputs :
         LET w == calc_model_wrapper(oflsdir, "psmc_model_spec.json", Timeline,
                                     5000, 8000, state0, fetch) IN
         /\ fileReads' = fileReads + w.reads
         /\ calls' = calls \o w.call
         /\ IF w.raised # <<>>
            THEN /\ error' = w.raised
                 /\ pc' = "except"
                 /\ UNCHANGED <<fwdModel, pred>>
            ELSE /\ fwdModel' = w.model
                 /\ pred' = p
                 /\ pc' = "RunValidationWindow"
                 /\ error' = error
    /\ UNCHANGED <<tlm, db, fileExists, traceback, driverCalls, state0, uncaught,
                   valModel, viols, report, printed, exitStatus, cmArgs, cmFetch>>

\* driver step 4: calc_model_wrapper over the validation window, no state0
RunValidationWindow ==
    /\ pc = "RunValidationWindow"
    /\ steps' = Append(steps, "RunValidationWindow")
    /\ \E fetch \in FetchInputs :
         LET w == calc_model_wrapper(oflsdir, "psmc_model_spec.json", Timeline,
                                     1000, 5000, <<>>, fetch) IN
         /\ fileReads' = fileReads + w.reads
         /\ calls' = calls \o w.call
         /\ IF w.raised # <<>>
            THEN /\ error' = w.raised
                 /\ pc' = "except"
                 /\ valModel' = valModel
            ELSE /\ valModel' = w.model
                 /\ pc' = "Evaluate"
                 /\ error' = error
    /\ UNCHANGED <<tlm, db, fileExists, traceback, driverCalls, state0, uncaught,
                   fwdModel, pred, viols, report, printed, exitStatus, cmArgs,
                   cmFetch>>

\* planning limit of the forward check: yellow limit minus margin
plan_limit == RMinus(YELLOW, MARGIN)

\* contract B: the samples at or above the planning limit
evaluate_limit(series) == {i \in 1..Len(series) : RGe(series[i], plan_limit)}

\* driver step 5: the forward series against the planning limit
Evaluate ==
    /\ pc = "Evaluate"
    /\ steps' = Append(steps, "Evaluate")
    /\ viols' = <<evaluate_limit(pred)>>
    /\ pc' = "Terminal"
    /\ UNCHANGED <<tlm, db, fileExists, traceback, driverCalls, state0, error,
                   uncaught, calls, fileReads, fwdModel, valModel, pred, report,
                   printed, exitStatus, cmArgs, cmFetch>>

\* driver step 6: results handed to the report and plot writers; driver returns
Terminal ==
    /\ pc = "Terminal"
    /\ steps' = Append(steps, "Terminal")
    /\ report' = <<[model |-> fwdModel[1], validation |-> valModel[1],
                    viols |-> viols[1]]>>
    /\ pc' = "returned"
    /\ UNCHANGED <<tlm, db, fileExists, traceback, driverCalls, state0, error,
                   uncaught, calls, fileReads, fwdModel, valModel, pred, viols,
                   printed, exitStatus, cmArgs, cmFetch>>

\* an except clause that calls the driver once more before giving up
main_except_retry ==
    /\ pc = "except"
    /\ IF driverCalls < 2
       THEN /\ driverCalls' = driverCalls + 1
            /\ pc' = "Init"
            /\ UNCHANGED <<printed, exitStatus>>
       ELSE /\ printed' = Append(printed, <<"ERROR:", error[1]>>)
            /\ exitStatus' = <<1>>
            /\ pc' = "exited"
            /\ UNCHANGED driverCalls
    /\ UNCHANGED <<tlm, db, fileExists, traceback, state0, error, uncaught, steps,
                   calls, fileReads, fwdModel, valModel, pred, viols, report,
                   cmArgs, cmFetch>>

\* an except clause that prints the message and exits 0
main_except_exit0 ==
    /\ pc = "except"
    /\ pc' = "exited"
    /\ IF traceback
       THEN uncaught' = error /\ printed' = printed /\ exitStatus' = <<1>>
       ELSE /\ printed' = Append(printed, <<"ERROR:", error[1]>>)
            /\ uncaught' = uncaught
            /\ exitStatus' = <<0>>
    /\ UNCHANGED <<tlm, db, fileExists, traceback, driverCalls, state0, error, steps,
                   calls, fileReads, fwdModel, valModel, pred, viols, report,
                   cmArgs, cmFetch>>

\* main, lines 115-120: the except clause.  With args.traceback the exception
\* is re-raised and leaves main uncaught (the interpreter prints the traceback
\* and exits 1); otherwise "ERROR: msg" is printed and sys.exit(1) called.
main_except ==
    /\ pc = "except"
    /\ pc' = "exited"
    /\ IF traceback
       THEN uncaught' = error /\ printed' = printed /\ exitStatus' = <<1>>
       ELSE /\ printed' = Append(printed, <<"ERROR:", error[1]>>)
            /\ uncaught' = uncaught
            /\ exitStatus' = <<1>>
    /\ UNCHANGED <<tlm, db, fileExists, traceback, driverCalls, state0, error, steps,
                   calls, fileReads, fwdModel, valModel, pred, viols, report,
                   cmArgs, cmFetch>>

\* main returns after driver returned: the process exits 0
main_return ==
    /\ pc = "returned"
    /\ pc' = "exited"
    /\ exitStatus' = <<0>>
    /\ UNCHANGED <<tlm, db, fileExists, traceback, driverCalls, state0, error,
                   uncaught, steps, calls, fileReads, fwdModel, valModel, pred,
                   viols, report, printed, cmArgs, cmFetch>>

Next ==
    \/ MainCallDriver
    \/ DriverInit
    \/ ResolveInitialState
    \/ RunForward
    \/ RunValidationWindow
    \/ Evaluate
    \/ Terminal
    \/ main_except
    \/ main_return

Spec == Init /\ [][Next]_vars

----------------------------------------------------------------------------
(* set_initial_state on bounded telemetry *)

InitInitialState ==
    /\ pc = "call"
    /\ tlm \in TlmInputs
    /\ db \in DbInputs
    /\ fileExists = TRUE
    /\ traceback = FALSE
    /\ cmArgs = None
    /\ cmFetch = <<>>
    /\ state0 = <<>>
    /\ Blank

CallSetInitialState ==
    /\ pc = "call"
    /\ pc' = "returned"
    /\ LET r == set_initial_state(tlm, db) IN
       IF r.ok
       THEN state0' = <<r.val>> /\ error' = error
       ELSE state0' = state0 /\ error' = <<r.err>>
    /\ UNCHANGED <<tlm, db, fileExists, traceback, driverCalls, uncaught, steps,
                   calls, fileReads, fwdModel, valModel, pred, viols, report,
                   printed, exitStatus, cmArgs, cmFetch>>

NextInitialState == CallSetInitialState

SpecInitialState == InitInitialState /\ [][NextInitialState]_vars

----------------------------------------------------------------------------
(* calc_model_wrapper on bounded arguments *)

\* states as set_initial_state returns them, NaN seed included
State0Inputs ==
    {<<>>} \cup
    {<<(t_msid :> T) @@ row>> :
       T \in {R(40), R(45), Rat(85, 2), Rat(125, 3), NaN},
       row \in UNION DbInputs}

InitWrapper ==
    /\ pc = "call"
    /\ tlm = Table(<<>>, <<>>)
    /\ db = {}
    /\ fileExists \in BOOLEAN
    /\ traceback = FALSE
    /\ cmArgs = None
    /\ cmFetch \in FetchInputs
    /\ state0 \in State0Inputs
    /\ Blank

CallCalcModelWrapper ==
    /\ pc = "call"
    /\ pc' = "returned"
    /\ LET w == calc_model_wrapper(oflsdir, "psmc_model_spec.json", Timeline,
                                   5000, 8000, state0, cmFetch) IN
       /\ fileReads' = fileReads + w.reads
       /\ calls' = calls \o w.call
       /\ error' = w.raised
       /\ fwdModel' = w.model
    /\ UNCHANGED <<tlm, db, fileExists, traceback, driverCalls, state0, uncaught,
                   steps, valModel, pred, viols, report, printed, exitStatus,
                   cmArgs, cmFetch>>

NextWrapper == CallCalcModelWrapper

SpecWrapper == InitWrapper /\ [][NextWrapper]_vars

----------------------------------------------------------------------------
(* calc_model on bounded arguments *)

InitCalcModel ==
    /\ pc = "call"
    /\ tlm = Table(<<>>, <<>>)
    /\ db = {}
    /\ fileExists = TRUE
    /\ traceback = FALSE
    /\ cmArgs \in CalcModelArgs
    /\ cmFetch \in FetchInputs
    /\ state0 = <<>>
    /\ Blank

CallCalcModel ==
    /\ pc = "call"
    /\ pc' = "returned"
    /\ calls' = Append(calls, cmArgs)
    /\ fwdModel' = <<calc_model(cmArgs, cmFetch)>>
    /\ UNCHANGED <<tlm, db, fileExists, traceback, driverCalls, state0, error,
                   uncaught, steps, fileReads, valModel, pred, viols, report,
                   printed, exitStatus, cmArgs, cmFetch>>

NextCalcModel == CallCalcModel

SpecCalcModel == InitCalcModel /\ [][NextCalcModel]_vars

----------------------------------------------------------------------------
(* Properties *)

Range(f) == {f[i] : i \in DOMAIN f}

\* pin + 10 = prim as rationals; NaN only with NaN
TenBelow(pin, prim) ==
    IF prim.d = 0 THEN pin.d = 0
    ELSE pin.d # 0 /\ (pin.n + 10 * pin.d) * prim.d = prim.n * pin.d

\* C1: whenever calc_model_wrapper is called with a state0 and reaches
\* calc_model, the tracked-sensor seed it hands over is state0[t_msid] and the
\* companion-sensor seed is that value minus 10.0; with the heater file
\* present the call always reaches calc_model.
C1_CompanionSeedIsPrimaryMinusTen ==
    (pc = "returned" /\ state0 # <<>>) =>
        /\ fileExists => Len(calls) = 1
        /\ \A i \in 1..Len(calls) :
              /\ calls[i].T_psmc = Scalar(state0[1][t_msid])
              /\ calls[i].T_pin1at.tag = "scalar"
              /\ TenBelow(calls[i].T_pin1at.val, state0[1][t_msid])
              /\ fwdModel[1].comp["pin1at"].data = calls[i].T_pin1at

C1_Witness ==
    /\ pc = "returned"
    /\ state0 # <<>>
    /\ Len(calls) = 1
    /\ state0[1][t_msid] = Rat(85, 2)
    /\ calls[1].T_pin1at = Scalar(Rat(65, 2))

C3_FlaggedIffAtLeastPlanningLimit ==
    viols # <<>> =>
        viols[1] = {i \in 1..Len(pred) : 2 * pred[i].n >= 105 * pred[i].d}

C3_Witness ==
    /\ viols = <<{2}>>
    /\ pred[1] = Rat(262, 5)
    /\ pred[2] = Rat(105, 2)

\* the reference state was found and no sample lies within 700 s of its start
WindowEmpty ==
    LET n == Len(tlm["date"]) IN
    /\ n >= 5
    /\ LET g == get_state0(tlm["date"][n - 4], db) IN
       /\ g.ok
       /\ \A i \in 1..n : \/ tlm["date"][i] < g.val.tstart - 700
                          \/ tlm["date"][i] > g.val.tstart + 700

\* C4: when no telemetry sample lies in the seeding window of the reference
\* state, set_initial_state fails with InsufficientTelemetryError and returns
\* no state.
C4_EmptyWindowRaises ==
    ("ResolveInitialState" \in Range(steps) /\ WindowEmpty) =>
        /\ state0 = <<>>
        /\ error = <<"InsufficientTelemetryError">>

PipelineOrder == <<"Init", "ResolveInitialState", "RunForward",
                   "RunValidationWindow", "Evaluate", "Terminal">>

IsPrefix(s, t) == Len(s) <= Len(t) /\ \A i \in 1..Len(s) : s[i] = t[i]

C6_ExitStatusFollowsOutcome ==
    /\ (error # <<>> => pc \in {"except", "exited"})
    /\ (pc = "exited" =>
          /\ (error # <<>> /\ ~traceback) =>
                /\ printed = << <<"ERROR:", error[1]>> >>
                /\ exitStatus = <<1>>
                /\ uncaught = <<>>
          /\ (error # <<>> /\ traceback) =>
                /\ uncaught = error
                /\ printed = <<>>
                /\ exitStatus # <<0>>
          /\ error = <<>> =>
                /\ exitStatus = <<0>>
                /\ printed = <<>>
                /\ uncaught = <<>>
                /\ report # <<>>)

C6_Witness ==
    /\ pc = "exited"
    /\ ~traceback
    /\ error = <<"IndexError">>
    /\ printed = << <<"ERROR:", "IndexError">> >>
    /\ exitStatus = <<1>>

\* the tracked-sensor driver's values on the model grid, from the arguments
TrackedValues ==
    IF IsNone(cmArgs.T_psmc) THEN cmFetch
    ELSE [i \in 1..NTimes |-> cmArgs.T_psmc.val]

LogIndices(log, op, comp) ==
    {i \in 1..Len(log) : log[i].op = op /\ log[i].comp = comp}

\* C7: calc_model called without a companion-sensor value gives the companion
\* driver the tracked driver's values minus 10.0 at every sample, computed
\* after the tracked driver was set; called with a value, it passes that
\* value on unchanged.
C7_CompanionDriverData ==
    pc = "returned" =>
        LET m == fwdModel[1]
            pin == m.comp["pin1at"].data
        IN
        /\ \A i \in LogIndices(m.log, "set_data", "1pdeaat") :
             \A j \in LogIndices(m.log, "set_data", "pin1at") : i < j
        /\ IF IsNone(cmArgs.T_pin1at)
           THEN /\ pin.tag = "array"
                /\ Len(pin.vals) = Len(TrackedValues)
                /\ \A i \in 1..Len(pin.vals) : TenBelow(pin.vals[i], TrackedValues[i])
           ELSE pin = cmArgs.T_pin1at

C7_Witness ==
    /\ pc = "returned"
    /\ IsNone(cmArgs.T_pin1at)
    /\ IsNone(cmArgs.T_psmc)
    /\ cmFetch[1] = R(40)
    /\ cmFetch[2] = R(45)
    /\ fwdModel[1].comp["pin1at"].data.vals[1] = R(30)
    /\ fwdModel[1].comp["pin1at"].data.vals[2] = R(35)

RECURSIVE SumOver(_, _)
SumOver(W, vals) ==
    IF W = {} THEN 0
    ELSE LET i == CHOOSE j \in W : TRUE IN vals[i] + SumOver(W \ {i}, vals)

\* C8: the state set_initial_state returns is the reference state (the last
\* one starting before the fifth-from-last sample) with one entry added: the
\* mean of the samples dated within 700 s of its tstart, both ends included.
\* Samples outside do not count; tstart and every other field are kept.
C8_SeedIsWindowMean ==
    (pc = "returned" /\ state0 # <<>>) =>
        LET n == Len(tlm["date"])
            ref == get_state0(tlm["date"][n - 4], db).val
            W == {i \in 1..n : /\ ref.tstart - 700 <= tlm["date"][i]
                               /\ tlm["date"][i] <= ref.tstart + 700}
            s == state0[1]
        IN
        /\ DOMAIN s = DOMAIN ref \cup {t_msid}
        /\ \A k \in DOMAIN ref : s[k] = ref[k]
        /\ W # {} =>
              /\ s[t_msid].d > 0
              /\ s[t_msid].n * Cardinality(W) = s[t_msid].d * SumOver(W, tlm[msid])

C8_Witness ==
    /\ pc = "returned"
    /\ state0 # <<>>
    /\ tlm["date"] = <<299, 300, 1700, 1701, 2400, 3000, 3600>>
    /\ tlm[msid] = <<45, 40, 45, 40, 40, 40, 40>>
    /\ state0[1].tstart = 1000
    /\ state0[1][t_msid] = Rat(85, 2)

\* C9: calc_model_wrapper called without a state0 makes no ascii.read call,
\* cannot fail, and hands calc_model no tracked seed, no companion seed, no
\* heater values and no heater times, whether or not the heater file exists;
\* the file is read exactly when a state0 is given.
C9_ValidationModeReadsNoHeaterFile ==
    pc = "returned" =>
        /\ fileReads = (IF state0 = <<>> THEN 0 ELSE 1)
        /\ state0 = <<>> =>
              /\ error = <<>>
              /\ fwdModel # <<>>
              /\ Len(calls) = 1
              /\ IsNone(calls[1].T_psmc)
              /\ IsNone(calls[1].T_psmc_times)
              /\ IsNone(calls[1].T_pin1at)
              /\ IsNone(calls[1].T_pin1at_times)
              /\ IsNone(calls[1].dh_heater)
              /\ IsNone(calls[1].dh_heater_times)

C9_Witness ==
    /\ pc = "returned"
    /\ state0 = <<>>
    /\ ~fileExists
    /\ fileReads = 0
    /\ fwdModel # <<>>
    /\ IsNone(calls[1].dh_heater)

\* C10: in the model calc_model returns, each of the eleven components had
\* set_data called exactly once, all before the single make(), which is
\* before the single calc(), which is the last call; eclipse was given False.
C10_EachComponentSetOnceThenMakeThenCalc ==
    pc = "returned" =>
        LET log == fwdModel[1].log
            makes == LogIndices(log, "make", "")
            calcs == LogIndices(log, "calc", "")
        IN
        /\ Cardinality(makes) = 1
        /\ Cardinality(calcs) = 1
        /\ \A c \in {"sim_z", "1pdeaat", "pin1at", "roll", "eclipse", "ccd_count",
                     "fep_count", "vid_board", "clocking", "pitch", "dh_heater"} :
              /\ Cardinality(LogIndices(log, "set_data", c)) = 1
              /\ \A i \in LogIndices(log, "set_data", c) : \A k \in makes : i < k
        /\ \A k \in makes : \A j \in calcs : k < j
        /\ calcs = {Len(log)}
        /\ fwdModel[1].comp["eclipse"].data = Flag(FALSE)

C10_Witness ==
    /\ pc = "returned"
    /\ Len(fwdModel[1].log) = 13
    /\ fwdModel[1].log[12].op = "make"
    /\ fwdModel[1].log[13].op = "calc"
    /\ ~IsNone(cmArgs.dh_heater)

====
